---- MODULE Spec2Model ----
(***************************************************************************)
(* A model of the python-workshop utilities:                               *)
(*   solutions/01_basics_solutions.py   grade, safe_div                    *)
(*   src/data_handling/json_api.py      parse_items_from_json, write_json, *)
(*                                      read_json, normalize_emails        *)
(*   src/oop/models.py                  User, UserDC, dedupe_users_by_id   *)
(*                                                                         *)
(* The scripts share no state, so each cluster has its own specification   *)
(* (SpecGrade, SpecSafeDiv, SpecEmails, SpecParse, SpecFiles, SpecRecords, *)
(* SpecFingerprint, SpecDedupe);                                           *)
(* the variables of the other clusters stay at their initial values.       *)
(*                                                                         *)
(* Python values are tagged records [t |-> <type>, ...]: a Python list may *)
(* mix types, and the tag keeps values of different types comparable.      *)
(***************************************************************************)
EXTENDS Integers, Sequences, FiniteSets, TLC

VARIABLES
    \* 01_basics_solutions.py
    score, letter, prevScore, prevLetter,   \* the last two calls of grade
    divA, divB, divOut,                     \* the last call of safe_div
    \* json_api.py, normalize_emails
    emails, normalized, emailPhase,         \* the last call and its result
    \* json_api.py, parse_items_from_json
    payload, lost, parsePhase, parseOut,    \* the payload text and the outcome
    parseDepth,                             \* the depth of the stack at the call
    \* json_api.py, write_json / read_json
    dirs, files,                            \* the file system
    ioCall, ioOut,                          \* the last call and its outcome
    written,                                \* history: the last value written to each path,
                                            \* and whether it replaced an earlier one
    \* models.py, User / UserDC
    recs,                                   \* the records held by the caller
    fpBasis,                                \* history: id and email at the last compute_fingerprint
    fpRet,                                  \* the last value compute_fingerprint returned
    \* models.py, dedupe_users_by_id
    users, pos, seen, result, dedupePc      \* the loop of lines 108-114

gradeVars == <<score, letter, prevScore, prevLetter>>
divVars == <<divA, divB, divOut>>
emailVars == <<emails, normalized, emailPhase>>
parseVars == <<payload, lost, parsePhase, parseOut, parseDepth>>
fileVars == <<dirs, files, ioCall, ioOut, written>>
recVars == <<recs, fpBasis, fpRet>>
dedupeVars == <<users, pos, seen, result, dedupePc>>

vars == <<gradeVars, divVars, emailVars, parseVars, fileVars, recVars, dedupeVars>>

(***************************************************************************)
(* Bounds of the model.                                                    *)
(***************************************************************************)
\* scores range over -BelowZero .. MaxScore
BelowZero == 4
MaxScore == 104
\* int operands of safe_div range over -DivRange .. DivRange
DivRange == 3
\* normalize_emails is called on lists of at most MaxEmails entries
MaxEmails == 3
\* at most MaxCorrupt characters of a payload are lost before it is parsed
MaxCorrupt == 1
\* json_api.py:54, write_json's default indent
Indent == 2
\* the values written by write_json nest lists and dicts MaxDepth deep
MaxDepth == 2
\* dedupe_users_by_id is called on lists of at most MaxUsers records
MaxUsers == 3

Abs(n) == IF n < 0 THEN -n ELSE n

RECURSIVE Gcd(_, _)
Gcd(m, n) == IF n = 0 THEN m ELSE Gcd(n, m % n)

(***************************************************************************)
(* grade: the chain of early returns of 01_basics_solutions.py:4-9.        *)
(***************************************************************************)
\* grade with the first threshold exclusive
gradeLenient(s) ==
    IF s > 90 THEN "A"
    ELSE IF s >= 80 THEN "B"
    ELSE IF s >= 70 THEN "C"
    ELSE IF s >= 60 THEN "D"
    ELSE "F"

\* grade, lines 4-9
grade(s) ==
    IF s >= 90 THEN "A"
    ELSE IF s >= 80 THEN "B"
    ELSE IF s >= 70 THEN "C"
    ELSE IF s >= 60 THEN "D"
    ELSE "F"

(***************************************************************************)
(* safe_div.  Operands:                                                    *)
(*   [t |-> "int",   v |-> n, big |-> b]   the int n, or n * 10^400 when   *)
(*                                         big (an int beyond the range of *)
(*                                         a double; Python ints are       *)
(*                                         unbounded)                      *)
(*   [t |-> "bool",  v |-> TRUE/FALSE]     a bool (an int subclass)        *)
(*   [t |-> "float", num |-> n, den |-> d] the float n/d, d > 0; with d = 0 *)
(*                                         inf (n = 1), -inf (n = -1) and  *)
(*                                         nan (n = 0); -0.0 has n = 0 and *)
(*                                         d = -1; a nan has a field       *)
(*                                         obj, the name of the object, as *)
(*                                         a list or a dict compares its   *)
(*                                         elements by identity first      *)
(*   [t |-> "str",   v |-> s]              a str                           *)
(*   [t |-> "none"]                        None                            *)
(* A float is the reduced fraction that the double approximates; the text  *)
(* of a float (json.dumps, json.loads) is modelled for the decimals of at  *)
(* most 9 digits and 9 places, which TLC's integers hold.                  *)
(* An outcome is a returned value or [t |-> "raise", exc |-> <name>].      *)
(***************************************************************************)
PyFloat(n, d) ==
    LET g == Gcd(Abs(n), Abs(d))
        s == IF d < 0 THEN -1 ELSE 1
    IN  [t |-> "float", num |-> (s * n) \div g, den |-> (s * d) \div g]

\* the exponent of the scale of a big int: v * 10^BigExp is beyond a double
BigExp == 400
BigInt(n) == [t |-> "int", v |-> n, big |-> TRUE]

\* a nan object; two nans are one object iff they have one name
NaNObj(o) == [t |-> "float", num |-> 0, den |-> 0, obj |-> o]
\* json.decoder.NaN, the one object the decoder returns for the constant NaN
PyNaN == NaNObj("json.decoder.NaN")
\* float("nan") made by a caller
CallerNaN == NaNObj("caller")
\* -0.0
PyNegZero == [t |-> "float", num |-> 0, den |-> -1]
\* float("inf"), float("-inf")
PyInf == [t |-> "float", num |-> 1, den |-> 0]
PyNegInf == [t |-> "float", num |-> -1, den |-> 0]
IsNaN(x) == x.t = "float" /\ x.den = 0 /\ x.num = 0
IsInf(x) == x.t = "float" /\ x.den = 0 /\ x.num # 0

PyNone == [t |-> "none"]
NotCalled == [t |-> "uncalled"]
Raise(e) == [t |-> "raise", exc |-> e]

IsIntLike(x) == x.t \in {"int", "bool"}
IsNumber(x) == x.t \in {"int", "bool", "float"}
\* the int value of an int or a bool (without the 10^400 scale)
IntVal(x) == IF x.t = "bool" THEN (IF x.v THEN 1 ELSE 0) ELSE x.v
IsBig(x) == x.t = "int" /\ x.big /\ x.v # 0
IsZero(x) ==
    \/ IsIntLike(x) /\ IntVal(x) = 0
    \/ x.t = "float" /\ x.num = 0 /\ x.den # 0
\* numerator and denominator of a number that fits a double
NumOf(x) == IF x.t = "float" THEN x.num ELSE IntVal(x)
DenOf(x) == IF x.t = "float" THEN x.den ELSE 1

\* the sign bit of a number
IsNeg(x) ==
    IF x.t = "float" THEN x.num < 0 \/ (x.num = 0 /\ x.den < 0)
    ELSE IntVal(x) < 0

\* the zero a quotient rounds to: negative iff the signs of a and b differ
SignedZero(a, b) == IF IsNeg(a) # IsNeg(b) THEN PyNegZero ELSE PyFloat(0, 1)

\* the double of a finite number is the fraction itself: its denominator is
\* a power of two (0.5, -1.5, 3), where 0.7 and 0.1 are rounded
IsExact(x) == \E k \in 0 .. 30 : DenOf(x) = 2 ^ k

\* a / b of two doubles, b nonzero: IEEE 754 division, which rounds the
\* quotient of the two doubles.  That is the double nearest to the quotient
\* of the fractions when both doubles are exact, when b is a power of two
\* and when |a| = |b|; the quotient of other operands (0.7 / 0.1 is
\* 6.999999999999999, not 7.0) is no float of the model.  A nan quotient is
\* a new object at every division
FloatDiv(a, b) ==
    IF IsNaN(a) \/ IsNaN(b) THEN NaNObj("quotient")
    ELSE IF IsInf(a) THEN
        IF IsInf(b) THEN NaNObj("quotient")
        ELSE IF IsNeg(a) = IsNeg(b) THEN PyInf ELSE PyNegInf
    ELSE IF IsInf(b) \/ IsZero(a) THEN SignedZero(a, b)
    ELSE CASE \/ IsExact(a) /\ IsExact(b)
              \/ IsExact(b) /\ Abs(NumOf(b)) = 1
              \/ DenOf(b) = 1 /\ \E k \in 0 .. 30 : Abs(NumOf(b)) = 2 ^ k
              \/ (Abs(NumOf(a)) = Abs(NumOf(b)) /\ DenOf(a) = DenOf(b)) ->
                    PyFloat(NumOf(a) * DenOf(b), DenOf(a) * NumOf(b))

\* a / b as Python's operator computes it: int.__truediv__ for two ints,
\* float.__truediv__ / __rtruediv__ when either is a float, TypeError otherwise
TrueDiv(a, b) ==
    IF ~(IsNumber(a) /\ IsNumber(b)) THEN Raise("TypeError")
    ELSE IF IsIntLike(a) /\ IsIntLike(b) THEN
        IF IsZero(b) THEN Raise("ZeroDivisionError")
        ELSE IF IsBig(a) /\ ~IsBig(b) THEN Raise("OverflowError")
        ELSE IF (IsBig(b) /\ ~IsBig(a)) \/ IsZero(a) THEN SignedZero(a, b)
        ELSE PyFloat(IntVal(a), IntVal(b))
    ELSE
        \* an int operand is converted to a double first
        IF IsBig(a) \/ IsBig(b) THEN Raise("OverflowError")
        ELSE IF IsZero(b) THEN Raise("ZeroDivisionError")
        ELSE FloatDiv(a, b)

\* try: return a / b; except ZeroDivisionError / TypeError: return None
safe_div(a, b) ==
    LET r == TrueDiv(a, b)
    IN  IF r.t = "raise" /\ r.exc \in {"ZeroDivisionError", "TypeError"}
        THEN PyNone
        ELSE r

Ints == [t : {"int"}, v : (-DivRange) .. DivRange, big : BOOLEAN]
Bools == [t : {"bool"}, v : BOOLEAN]
Floats == {PyFloat(0, 1), PyNegZero, PyFloat(1, 2), PyFloat(2, 1), PyFloat(-3, 2), PyInf, CallerNaN}
Strs == [t : {"str"}, v : {"x", ""}]
Operands == Ints \cup Bools \cup Floats \cup Strs \cup {PyNone}

Scores == (-BelowZero) .. MaxScore

(***************************************************************************)
(* Text.  A str is a TLA+ string; Char(s, i) is its i-th character.  The   *)
(* characters of the model are the ones a TLA+ string holds: tab, newline, *)
(* form feed, carriage return and printable ASCII but the backtick.        *)
(***************************************************************************)
Char(s, i) == SubSeq(s, i, i)

\* the control characters of the model, code points 9, 10, 12, 13
ControlChars == {"\t", "\n", "\f", "\r"}
\* code points 32 .. 95 and 97 .. 126
Printable == " !\"#$%&'()*+,-./0123456789:;<=>?@ABCDEFGHIJKLMNOPQRSTUVWXYZ[\\]^_abcdefghijklmnopqrstuvwxyz{|}~"
\* the characters of the model in code-point order
AsciiOrder == "\t\n\f\r" \o Printable
UpperChars == "ABCDEFGHIJKLMNOPQRSTUVWXYZ"
LowerChars == "abcdefghijklmnopqrstuvwxyz"
\* the characters str.strip() removes
Whitespace == {" ", "\t", "\n", "\f", "\r"}

\* ord(c)
Ord(c) ==
    CASE c = "\t" -> 9
      [] c = "\n" -> 10
      [] c = "\f" -> 12
      [] c = "\r" -> 13
      [] OTHER -> LET i == CHOOSE k \in 1 .. Len(Printable) : Char(Printable, k) = c
                  IN  IF i <= 64 THEN 31 + i ELSE 32 + i

\* chr(n) of the code point of a character of the model
Chr(n) ==
    CASE n = 9 -> "\t"
      [] n = 10 -> "\n"
      [] n = 12 -> "\f"
      [] n = 13 -> "\r"
      [] n \in 32 .. 95 -> Char(Printable, n - 31)
      [] n \in 97 .. 126 -> Char(Printable, n - 32)

\* s1 < s2 as Python compares str: by code point, a proper prefix first
RECURSIVE StrLess(_, _)
StrLess(s1, s2) ==
    IF s2 = "" THEN FALSE
    ELSE IF s1 = "" THEN TRUE
    ELSE IF Head(s1) = Head(s2) THEN StrLess(Tail(s1), Tail(s2))
    ELSE Ord(Head(s1)) < Ord(Head(s2))

\* str.lower()
LowerChar(c) ==
    IF \E i \in 1 .. Len(UpperChars) : Char(UpperChars, i) = c
    THEN Char(LowerChars, CHOOSE i \in 1 .. Len(UpperChars) : Char(UpperChars, i) = c)
    ELSE c

RECURSIVE Lower(_)
Lower(s) == IF s = "" THEN "" ELSE LowerChar(Head(s)) \o Lower(Tail(s))

\* str.strip(): whitespace removed from both ends
RECURSIVE LStrip(_)
LStrip(s) ==
    IF s # "" /\ Head(s) \in Whitespace THEN LStrip(Tail(s)) ELSE s

RECURSIVE RStrip(_)
RStrip(s) ==
    IF s # "" /\ Char(s, Len(s)) \in Whitespace
    THEN RStrip(SubSeq(s, 1, Len(s) - 1))
    ELSE s

Strip(s) == RStrip(LStrip(s))

PyStr(s) == [t |-> "str", v |-> s]
PyInt(n) == [t |-> "int", v |-> n, big |-> FALSE]

\* bool(e): an empty str, list or dict, a zero, False and None are falsy
Truthy(e) ==
    CASE e.t = "str" -> e.v # ""
      [] e.t = "int" -> e.v # 0
      [] e.t = "bool" -> e.v
      [] e.t = "float" -> ~(e.num = 0 /\ e.den # 0)
      [] e.t \in {"list", "dict"} -> e.v # <<>>
      [] OTHER -> FALSE

\* sorted(S) for a set of str
RECURSIVE Sorted(_)
Sorted(S) ==
    IF S = {} THEN <<>>
    ELSE LET m == CHOOSE x \in S : \A y \in S \ {x} : StrLess(x, y)
         IN  <<m>> \o Sorted(S \ {m})

(***************************************************************************)
(* normalize_emails, json_api.py:105-111.                                  *)
(***************************************************************************)
\* the filter of the comprehension: "if e and isinstance(e, str)"
EmailKept(e) == Truthy(e) /\ e.t = "str"

\* the element expression of the comprehension: e.strip().lower()
EmailNorm(e) == Lower(Strip(e.v))

normalize_emails(xs) ==
    LET normalizedSet == {EmailNorm(xs[i]) : i \in {j \in 1 .. Len(xs) : EmailKept(xs[j])}}
        sorted == Sorted(normalizedSet)
    IN  [i \in 1 .. Len(sorted) |-> PyStr(sorted[i])]

EmailTexts == {" A@X.com", "a@x.com", "B@y.org ", "", "  "}
EmailEntries == {PyStr(s) : s \in EmailTexts} \cup {PyInt(0), PyInt(5), PyNone}

RECURSIVE SeqsUpTo(_, _)
SeqsUpTo(S, n) ==
    IF n = 0 THEN {<<>>}
    ELSE LET shorter == SeqsUpTo(S, n - 1)
         IN  shorter \cup {Append(q, x) : q \in {r \in shorter : Len(r) = n - 1}, x \in S}

(***************************************************************************)
(* JSON values: None, bool, int, str and the floats nan, inf and -inf as   *)
(* above (json reads and writes them as NaN, Infinity, -Infinity), and     *)
(*   [t |-> "list", v |-> <<x1, ..., xn>>]                                 *)
(*   [t |-> "dict", v |-> <<[k |-> key, x |-> value], ...>>]               *)
(* a dict keeps its keys (str, unique) in insertion order.                 *)
(***************************************************************************)
PyBool(b) == [t |-> "bool", v |-> b]
PyList(xs) == [t |-> "list", v |-> xs]
PyDict(kvs) == [t |-> "dict", v |-> kvs]
RaiseMsg(e, m) == [t |-> "raise", exc |-> e, msg |-> m]

DictHas(d, key) == \E i \in 1 .. Len(d.v) : d.v[i].k = key
DictGet(d, key) == d.v[CHOOSE i \in 1 .. Len(d.v) : d.v[i].k = key].x
\* d[key] = x on the pairs of a dict: a key already there keeps its place
DictPut(kvs, key, x) ==
    IF \E i \in 1 .. Len(kvs) : kvs[i].k = key
    THEN [i \in 1 .. Len(kvs) |-> IF kvs[i].k = key THEN [k |-> key, x |-> x] ELSE kvs[i]]
    ELSE Append(kvs, [k |-> key, x |-> x])

\* a == b of two numbers: by value, and nan equals nothing
NumEq(a, b) ==
    IF IsNaN(a) \/ IsNaN(b) THEN FALSE
    ELSE IF IsBig(a) \/ IsBig(b) THEN IsBig(a) /\ IsBig(b) /\ a.v = b.v
    ELSE IF IsInf(a) \/ IsInf(b) THEN IsInf(a) /\ IsInf(b) /\ a.num = b.num
    \* two fractions in lowest terms; 0.0 equals -0.0
    ELSE \/ NumOf(a) = 0 /\ NumOf(b) = 0
         \/ NumOf(a) = NumOf(b) /\ DenOf(a) = DenOf(b)

RECURSIVE PyEq(_, _)
\* the comparison of two elements of a list or of two values of a dict:
\* a is b or a == b; of the values of the model only a nan is not equal to
\* itself
ItemEq(a, b) == (IsNaN(a) /\ IsNaN(b) /\ a.obj = b.obj) \/ PyEq(a, b)

\* a == b as Python compares two JSON values: bool is an int, dicts ignore
\* order
PyEq(a, b) ==
    CASE IsNumber(a) /\ IsNumber(b) -> NumEq(a, b)
      [] a.t = "none" /\ b.t = "none" -> TRUE
      [] a.t = "str" /\ b.t = "str" -> a.v = b.v
      [] a.t = "list" /\ b.t = "list" ->
            /\ Len(a.v) = Len(b.v)
            /\ \A i \in 1 .. Len(a.v) : ItemEq(a.v[i], b.v[i])
      [] a.t = "dict" /\ b.t = "dict" ->
            /\ Len(a.v) = Len(b.v)
            /\ \A i \in 1 .. Len(a.v) :
                  DictHas(b, a.v[i].k) /\ ItemEq(a.v[i].x, DictGet(b, a.v[i].k))
      [] OTHER -> FALSE

(***************************************************************************)
(* The stack of the interpreter.  The interpreter counts the depth of its  *)
(* stack: a frame of a Python function is one level, and so is a call the  *)
(* C code guards (Py_EnterRecursiveCall: an array or an object inside the  *)
(* scanner of json, a call made from C).  A level beyond RecursionLimit    *)
(* raises RecursionError, which nothing in json or in json_api.py catches. *)
(***************************************************************************)
\* sys.getrecursionlimit(), the default of the interpreter
RecursionLimit == 1000
\* the depth of the stack in main, which the module calls (line 158) and
\* which calls parse_items_from_json, write_json and read_json
MainDepth == 2

(***************************************************************************)
(* json.dumps(obj, indent=indent): the text json_api.py:56 writes.  The    *)
(* encoder runs a generator frame for every list and dict around a value;  *)
(* called from main, these and the frames of write_json, dumps, encode,    *)
(* iterencode and of the encoders of floats fit the recursion limit when   *)
(* the value is inside at most RecursionLimit - MainDepth - 10 containers. *)
(* A value nested deeper, where json.dumps is about to raise               *)
(* RecursionError, has no text in the model.                               *)
(***************************************************************************)
RECURSIVE Spaces(_)
Spaces(n) == IF n = 0 THEN "" ELSE " " \o Spaces(n - 1)

NewlineIndent(indent, level) == "\n" \o Spaces(indent * level)

\* n zeros, built by halving
RECURSIVE Zeros(_)
Zeros(n) ==
    IF n = 0 THEN ""
    ELSE LET half == Zeros(n \div 2)
         IN  half \o half \o (IF n % 2 = 1 THEN "0" ELSE "")

\* str(n) of an int, all its digits
IntText(x) == IF IsBig(x) THEN ToString(x.v) \o Zeros(BigExp) ELSE ToString(x.v)

RECURSIVE Pow10(_)
Pow10(k) == IF k = 0 THEN 1 ELSE 10 * Pow10(k - 1)

\* float.__repr__ of a finite float: the shortest decimal that reads back as
\* the same double, which for a decimal of few digits is the decimal itself;
\* the digits are 0.d1d2... * 10^decpt, written with an exponent when
\* decpt <= -4 or decpt > 16, the exponent with a sign and two digits at least
FloatText(x) ==
    LET \* the number of decimal places of the fraction
        k == CHOOSE m \in 0 .. 9 :
                Pow10(m) % x.den = 0 /\ \A j \in 0 .. (m - 1) : Pow10(j) % x.den # 0
        digits == ToString(Abs(x.num) * (Pow10(k) \div x.den))
        n == Len(digits)
        decpt == n - k
        e == decpt - 1
        exponent == (IF e < 0 THEN "e-" ELSE "e+")
                    \o (IF Abs(e) < 10 THEN "0" ELSE "") \o ToString(Abs(e))
        body == IF k = 0 THEN digits \o ".0"
                ELSE IF decpt > 0
                THEN SubSeq(digits, 1, decpt) \o "." \o SubSeq(digits, decpt + 1, n)
                ELSE IF decpt > -4 THEN "0." \o Zeros(-decpt) \o digits
                ELSE Head(digits)
                     \o (IF n > 1 THEN "." \o Tail(digits) ELSE "")
                     \o exponent
    IN  IF x.num = 0 THEN (IF x.den < 0 THEN "-0.0" ELSE "0.0")
        ELSE (IF x.num < 0 THEN "-" ELSE "") \o body

\* the escape of a character in a JSON string (ensure_ascii): the quote,
\* the backslash and the control characters
EscapeChar(c) ==
    CASE c = "\"" -> "\\\""
      [] c = "\\" -> "\\\\"
      [] c = "\n" -> "\\n"
      [] c = "\r" -> "\\r"
      [] c = "\t" -> "\\t"
      [] c = "\f" -> "\\f"
      [] OTHER -> c

RECURSIVE Escape(_)
Escape(s) == IF s = "" THEN "" ELSE EscapeChar(Head(s)) \o Escape(Tail(s))

\* a str as JSON text
Quote(s) == "\"" \o Escape(s) \o "\""

RECURSIVE Dumps(_, _, _)
RECURSIVE DumpsItems(_, _, _, _)
RECURSIVE DumpsMembers(_, _, _, _)
Dumps(x, indent, level) ==
    CASE x.t = "none" -> "null"
      [] x.t = "bool" -> IF x.v THEN "true" ELSE "false"
      [] x.t = "int" -> IntText(x)
      \* allow_nan is True by default
      [] IsNaN(x) -> "NaN"
      [] IsInf(x) -> IF x.num > 0 THEN "Infinity" ELSE "-Infinity"
      [] x.t = "float" /\ x.den # 0 -> FloatText(x)
      [] x.t = "str" -> Quote(x.v)
      [] x.t = "list" /\ MainDepth + 10 + level <= RecursionLimit ->
            IF x.v = <<>> THEN "[]"
            ELSE "[" \o NewlineIndent(indent, level + 1)
                     \o DumpsItems(x.v, 1, indent, level + 1)
                     \o NewlineIndent(indent, level) \o "]"
      [] x.t = "dict" /\ MainDepth + 10 + level <= RecursionLimit ->
            IF x.v = <<>> THEN "{}"
            ELSE "{" \o NewlineIndent(indent, level + 1)
                     \o DumpsMembers(x.v, 1, indent, level + 1)
                     \o NewlineIndent(indent, level) \o "}"

DumpsItems(xs, i, indent, level) ==
    Dumps(xs[i], indent, level)
    \o (IF i = Len(xs) THEN ""
        ELSE "," \o NewlineIndent(indent, level) \o DumpsItems(xs, i + 1, indent, level))

DumpsMembers(kvs, i, indent, level) ==
    Quote(kvs[i].k) \o ": " \o Dumps(kvs[i].x, indent, level)
    \o (IF i = Len(kvs) THEN ""
        ELSE "," \o NewlineIndent(indent, level) \o DumpsMembers(kvs, i + 1, indent, level))

(***************************************************************************)
(* json.loads(text): the decoder json_api.py:36 and :61 call, on texts of  *)
(* the characters in AsciiOrder.  The constants NaN, Infinity and          *)
(* -Infinity are read as the decoder reads them.  Three kinds of text have *)
(* no value in the model: an escape of a character that is not in          *)
(* AsciiOrder (a backslash before b, a \u escape of another code point), a *)
(* float of more than 9 digits or places that is not read as inf or 0.0,   *)
(* and an int of more than 9 digits that is no big int.                    *)
(* A result is [ok |-> TRUE, val |-> value, end |-> next index] or         *)
(* [ok |-> FALSE, err |-> the exception].  The definitions of the decoder  *)
(* take the depth d of the stack they run at.                              *)
(***************************************************************************)
ScanErr(e) == [ok |-> FALSE, err |-> e]
Fail == ScanErr("JSONDecodeError")
Ok(x, j) == [ok |-> TRUE, val |-> x, end |-> j]

\* raise JSONDecodeError(msg, doc, pos) at depth d: the call of the class,
\* the frame of its __init__ and the calls __init__ makes are three levels
raise_errmsg(d) == IF d + 3 > RecursionLimit THEN ScanErr("RecursionError") ELSE Fail

IsDigit(c) == \E i \in 1 .. 10 : Char("0123456789", i) = c
DigitVal(c) == (CHOOSE i \in 1 .. 10 : Char("0123456789", i) = c) - 1

StartsWith(s, i, w) == i + Len(w) - 1 <= Len(s) /\ SubSeq(s, i, i + Len(w) - 1) = w

\* the whitespace of the decoder is " \t\n\r"
RECURSIVE SkipWs(_, _)
SkipWs(s, i) ==
    IF i <= Len(s) /\ Char(s, i) \in {" ", "\t", "\n", "\r"} THEN SkipWs(s, i + 1) ELSE i

IsHex(c) == \E i \in 1 .. 16 : Char("0123456789abcdef", i) = LowerChar(c)
HexVal(c) == (CHOOSE i \in 1 .. 16 : Char("0123456789abcdef", i) = LowerChar(c)) - 1

\* the character a backslash and e stand for
Unescape(e) ==
    CASE e = "\"" -> "\""
      [] e = "\\" -> "\\"
      [] e = "/" -> "/"
      [] e = "f" -> "\f"
      [] e = "n" -> "\n"
      [] e = "r" -> "\r"
      [] e = "t" -> "\t"

\* scanstring (strict) at depth d: i is the index after the opening quote or
\* after the part decoded into acc; a control character, an unknown escape
\* (what may follow a backslash is one of "\/bfnrt or u and four hex digits)
\* and the end of the text before the closing quote are errors
RECURSIVE ScanString(_, _, _, _)
ScanString(s, i, acc, d) ==
    IF i > Len(s) THEN raise_errmsg(d)
    ELSE LET c == Char(s, i)
         IN  IF c = "\"" THEN Ok(PyStr(acc), i + 1)
             ELSE IF c \in ControlChars THEN raise_errmsg(d)
             ELSE IF c # "\\" THEN ScanString(s, i + 1, acc \o c, d)
             ELSE IF i + 1 > Len(s) THEN raise_errmsg(d)
             ELSE IF Char(s, i + 1) = "u" THEN
                 IF i + 5 <= Len(s) /\ \A k \in (i + 2) .. (i + 5) : IsHex(Char(s, k))
                 THEN ScanString(s, i + 6,
                          acc \o Chr(4096 * HexVal(Char(s, i + 2)) + 256 * HexVal(Char(s, i + 3))
                                      + 16 * HexVal(Char(s, i + 4)) + HexVal(Char(s, i + 5))),
                          d)
                 ELSE raise_errmsg(d)
             ELSE IF Char(s, i + 1) \in {"\"", "\\", "/", "b", "f", "n", "r", "t"}
             THEN ScanString(s, i + 2, acc \o Unescape(Char(s, i + 1)), d)
             ELSE raise_errmsg(d)

\* the end of the run of digits starting at i: the first index from i on
\* that holds no digit
DigitsEnd(s, i) ==
    LET stops == {k \in i .. Len(s) : ~IsDigit(Char(s, k))}
    IN  IF stops = {} THEN Len(s) + 1
        ELSE CHOOSE k \in stops : \A m \in stops : k <= m

RECURSIVE DigitsVal(_, _, _, _)
DigitsVal(s, i, j, acc) ==
    IF i >= j THEN acc ELSE DigitsVal(s, i + 1, j, 10 * acc + DigitVal(Char(s, i)))

\* int(s[d .. j-1]) with the sign: digits that end in BigExp zeros are a big
\* int (other ints of that many digits are outside the model)
IntOfDigits(s, d, j, sign) ==
    IF j - d > BigExp /\ SubSeq(s, j - BigExp, j - 1) = Zeros(BigExp)
    THEN BigInt(sign * DigitsVal(s, d, j - BigExp, 0))
    ELSE PyInt(sign * DigitsVal(s, d, j, 0))

\* the value of the digits s[i .. j-1], at most 100000
RECURSIVE DigitsValCapped(_, _, _, _)
DigitsValCapped(s, i, j, acc) ==
    IF i >= j THEN acc
    ELSE LET next == 10 * acc + DigitVal(Char(s, i))
         IN  DigitsValCapped(s, i + 1, j, IF next > 100000 THEN 100000 ELSE next)

\* float(text) of the decimal 0.sig * 10^point, sig the digits ds without
\* the zeros at both ends: 0.0 when all digits are 0; inf from
\* 2^1024 - 2^970 = 1.797693134...e308 on and 0.0 up to
\* 2^-1075 = 2.470328229...e-324 (the roundings of a double, decided on the
\* first 9 digits); the fraction when it has at most 9 digits and places
FloatOfDecimal(neg, ds, scale) ==
    LET \* the indexes of the digits that are not 0, the first and the last
        nonZero == {k \in 1 .. Len(ds) : Char(ds, k) # "0"}
        first == CHOOSE k \in nonZero : \A m \in nonZero : k <= m
        last == CHOOSE k \in nonZero : \A m \in nonZero : k >= m
        sig == IF nonZero = {} THEN "" ELSE SubSeq(ds, first, last)
        n == Len(sig)
        sc == IF nonZero = {} THEN scale ELSE scale + (Len(ds) - last)
        point == n + sc
        lead == DigitsVal(sig, 1, n + 1, 0) * Pow10(9 - n)
        sign == IF neg THEN -1 ELSE 1
        zero == IF neg THEN PyNegZero ELSE PyFloat(0, 1)
        over == point > 309 \/ (point = 309 /\ n <= 9 /\ lead >= 179769314)
        under == point < -323 \/ (point = -323 /\ n <= 9 /\ lead <= 247032822)
    IN  CASE sig = "" -> zero
          [] sig # "" /\ over -> IF neg THEN PyNegInf ELSE PyInf
          [] sig # "" /\ under -> zero
          [] sig # "" /\ n <= 9 /\ sc >= 0 /\ point <= 9 ->
                PyFloat(sign * DigitsVal(sig, 1, n + 1, 0) * Pow10(sc), 1)
          [] sig # "" /\ n <= 9 /\ sc < 0 /\ sc >= -9 ->
                PyFloat(sign * DigitsVal(sig, 1, n + 1, 0), Pow10(-sc))

\* (-?(?:0|[1-9][0-9]*))(\.[0-9]+)?([eE][-+]?[0-9]+)? : an int when there is
\* neither a fraction nor an exponent, a float otherwise; a point or an e
\* that no digit follows is not part of the number; without a match the
\* scanner raises StopIteration
ParseNumber(s, i) ==
    LET neg == Char(s, i) = "-"
        d == IF neg THEN i + 1 ELSE i
        j == IF d <= Len(s) /\ Char(s, d) = "0" THEN d + 1 ELSE DigitsEnd(s, d)
        hasFrac == j + 1 <= Len(s) /\ Char(s, j) = "." /\ IsDigit(Char(s, j + 1))
        fracEnd == IF hasFrac THEN DigitsEnd(s, j + 1) ELSE j
        frac == IF hasFrac THEN SubSeq(s, j + 1, fracEnd - 1) ELSE ""
        hasSign == fracEnd + 1 <= Len(s) /\ Char(s, fracEnd + 1) \in {"+", "-"}
        e == IF hasSign THEN fracEnd + 2 ELSE fracEnd + 1
        hasExp == /\ e <= Len(s)
                  /\ Char(s, fracEnd) \in {"e", "E"}
                  /\ IsDigit(Char(s, e))
        expEnd == IF hasExp THEN DigitsEnd(s, e) ELSE fracEnd
        exp == IF ~hasExp THEN 0
               ELSE (IF Char(s, fracEnd + 1) = "-" THEN -1 ELSE 1)
                        * DigitsValCapped(s, e, expEnd, 0)
    IN  IF j = d THEN ScanErr("StopIteration")
        ELSE IF ~hasFrac /\ ~hasExp
        THEN Ok(IntOfDigits(s, d, j, IF neg THEN -1 ELSE 1), j)
        ELSE Ok(FloatOfDecimal(neg, SubSeq(s, d, j - 1) \o frac, exp - Len(frac)), expEnd)

RECURSIVE ParseValue(_, _, _)
RECURSIVE ArrayItems(_, _, _, _)
RECURSIVE ObjectMembers(_, _, _, _)

\* _parse_array at depth d: i is the index after "["
ParseArray(s, i, d) ==
    LET j == SkipWs(s, i)
    IN  IF j <= Len(s) /\ Char(s, j) = "]" THEN Ok(PyList(<<>>), j + 1)
        ELSE ArrayItems(s, j, <<>>, d)

\* _parse_object at depth d: i is the index after "{"
ParseObject(s, i, d) ==
    LET j == SkipWs(s, i)
    IN  IF j > Len(s) THEN raise_errmsg(d)
        ELSE IF Char(s, j) = "}" THEN Ok(PyDict(<<>>), j + 1)
        ELSE IF Char(s, j) # "\"" THEN raise_errmsg(d)
        ELSE ObjectMembers(s, j, <<>>, d)

\* scan_once at depth d, on the value that starts at index i: the call of
\* the scanner is a level itself.  An array and an object are parsed one
\* level deeper, and the call of parse_constant for NaN, Infinity and
\* -Infinity takes a level; where no value starts the scanner raises
\* StopIteration
ParseValue(s, i, d) ==
    IF d > RecursionLimit THEN ScanErr("RecursionError")
    ELSE IF i > Len(s) THEN ScanErr("StopIteration")
    ELSE LET c == Char(s, i)
             deeper == d + 1 <= RecursionLimit
         IN  CASE c = "\"" -> ScanString(s, i + 1, "", d)
               [] c \in {"{", "["} /\ ~deeper -> ScanErr("RecursionError")
               [] c = "{" /\ deeper -> ParseObject(s, i + 1, d + 1)
               [] c = "[" /\ deeper -> ParseArray(s, i + 1, d + 1)
               [] c = "n" /\ StartsWith(s, i, "null") -> Ok(PyNone, i + 4)
               [] c = "t" /\ StartsWith(s, i, "true") -> Ok(PyBool(TRUE), i + 4)
               [] c = "f" /\ StartsWith(s, i, "false") -> Ok(PyBool(FALSE), i + 5)
               [] c = "N" /\ StartsWith(s, i, "NaN") ->
                     IF deeper THEN Ok(PyNaN, i + 3) ELSE ScanErr("RecursionError")
               [] c = "I" /\ StartsWith(s, i, "Infinity") ->
                     IF deeper THEN Ok(PyInf, i + 8) ELSE ScanErr("RecursionError")
               [] c = "-" /\ StartsWith(s, i, "-Infinity") ->
                     IF deeper THEN Ok(PyNegInf, i + 9) ELSE ScanErr("RecursionError")
               [] (c = "-" /\ ~StartsWith(s, i, "-Infinity")) \/ IsDigit(c) ->
                     ParseNumber(s, i)
               [] OTHER -> ScanErr("StopIteration")

ArrayItems(s, i, acc, d) ==
    LET after(r) ==
            IF ~r.ok THEN r
            ELSE LET j == SkipWs(s, r.end)
                     items == Append(acc, r.val)
                 IN  IF j > Len(s) THEN raise_errmsg(d)
                     ELSE IF Char(s, j) = "]" THEN Ok(PyList(items), j + 1)
                     ELSE IF Char(s, j) = ","
                     THEN ArrayItems(s, SkipWs(s, j + 1), items, d)
                     ELSE raise_errmsg(d)
    IN  after(ParseValue(s, i, d))

\* s[i] is the opening quote of a key
ObjectMembers(s, i, acc, d) ==
    LET afterValue(key, r) ==
            IF ~r.ok THEN r
            ELSE LET m == SkipWs(s, r.end)
                     pairs == DictPut(acc, key.val.v, r.val)
                     n == SkipWs(s, m + 1)
                 IN  IF m > Len(s) THEN raise_errmsg(d)
                     ELSE IF Char(s, m) = "}" THEN Ok(PyDict(pairs), m + 1)
                     ELSE IF Char(s, m) # "," THEN raise_errmsg(d)
                     ELSE IF n > Len(s) \/ Char(s, n) # "\"" THEN raise_errmsg(d)
                     ELSE ObjectMembers(s, n, pairs, d)
        afterKey(key) ==
            IF ~key.ok THEN key
            ELSE LET j == SkipWs(s, key.end)
                 IN  IF j > Len(s) \/ Char(s, j) # ":" THEN raise_errmsg(d)
                     ELSE afterValue(key, ParseValue(s, SkipWs(s, j + 1), d))
    IN  afterKey(ScanString(s, i + 1, "", d))

\* json.loads called from a frame at depth c: one value, whitespace around
\* it, nothing else.  loads runs at depth c + 1, JSONDecoder.decode at
\* c + 2, raw_decode at c + 3 and the scanner it calls at c + 4; raw_decode
\* turns StopIteration into JSONDecodeError, and decode raises
\* JSONDecodeError for text after the value
Loads(s, c) ==
    LET decode(r) ==
            IF r.ok
            THEN (IF SkipWs(s, r.end) = Len(s) + 1 THEN r ELSE raise_errmsg(c + 2))
            ELSE IF r.err = "StopIteration" THEN raise_errmsg(c + 3)
            ELSE r
    IN  decode(ParseValue(s, SkipWs(s, 1), c + 4))

(***************************************************************************)
(* parse_items_from_json, json_api.py:30-43.                               *)
(***************************************************************************)
\* the shape test without the isinstance check of the value under 'items'
ItemsShapeOkAnyValue(obj) ==
    obj.t = "dict" /\ DictHas(obj, "items")

\* the shape test of line 40
ItemsShapeOk(obj) ==
    obj.t = "dict" /\ DictHas(obj, "items") /\ DictGet(obj, "items").t = "list"

\* c is the depth of the stack in the caller: the call of json.loads is made
\* one level deeper; line 37 catches JSONDecodeError only, so RecursionError
\* leaves the function as it is
parse_items_from_json(text, c) ==
    LET items(r) ==
            IF ~r.ok /\ r.err = "RecursionError" THEN Raise("RecursionError")
            ELSE IF ~r.ok THEN RaiseMsg("ValueError", "Invalid JSON payload")
            ELSE IF ~ItemsShapeOk(r.val)
            THEN RaiseMsg("ValueError", "Payload must be a dict with an 'items' list")
            ELSE DictGet(r.val, "items")
    IN  items(Loads(text, c + 1))

\* the payloads a caller sends: the demo's and the documented examples,
\* other shapes of valid JSON, and malformed text
Payloads == {
    "{\"items\":[{\"id\":1,\"name\":\"widget\"},{\"id\":2,\"name\":\"gadget\"}]}",
    "{\"items\":[1,2]}", "{}", "{\"items\":[]}", " {\"items\": [ ]}\n",
    "{\"k\":1,\"items\":[true]}", "{\"items\":[-1,\"a\",false,[null]]}",
    "{\"items\":1,\"items\":[20]}", "{\"items\":[2],\"items\":1}",
    "{\"items\":1}", "{\"items\":null}", "{\"items\":{}}", "{\"items\":\"ab\"}",
    "{\"item\":[1]}", "[1,2]", "[{\"items\":[]}]", "null", "\"items\"", "12", "",
    "{\"items\":[1,]}", "{\"items\":[1 2]}", "{items:[1]}", "{\"items\":[01]}",
    "{\"items\":[1]}}", "{\"items\":[\"a\nb\"]}",
    "NaN", "-Infinity", "{\"items\":[NaN,Infinity,-Infinity]}", "{\"items\":Infinity}",
    "{\"items\":[0.25,1.5,-2e3]}", "\t{\"items\":\r[1.5E-3]}", "{\"items\":1.0}",
    "{\"items\":[\"say \\\"hi\\\"\",\"a\\\\x\",\"l\\nm\"]}", "{\"it\\u0065ms\":[1]}",
    "{\"items\":[\"a\tc\"]}"
}

\* text without its i-th character
DeleteChar(s, i) == SubSeq(s, 1, i - 1) \o SubSeq(s, i + 1, Len(s))

\* the depths a caller of parse_items_from_json is at: main, and callers
\* deep in a recursion of their own, 9 and 7 levels below the limit
CallDepths == {MainDepth, RecursionLimit - 9, RecursionLimit - 7}


(***************************************************************************)
(* Files, json_api.py:47-61.  A path is the sequence of its components; a  *)
(* file is [exists |-> BOOLEAN, text |-> its content].                     *)
(***************************************************************************)
DATA_DIR == <<"data">>
ITEMS_PATH == DATA_DIR \o <<"items.json">>
\* a caller's path outside DATA_DIR
ReportPath == <<"out", "report.json">>
Paths == {ITEMS_PATH, ReportPath}

Parent(path) == SubSeq(path, 1, Len(path) - 1)
NoFile == [exists |-> FALSE, text |-> ""]

\* json.dumps(obj, indent=indent) with the default indent
WriteText(obj) == Dumps(obj, Indent, 0)

\* a write that makes the missing directories first
CanOpenForWriteAnywhere(ds, path) == TRUE
\* Path.write_text opens the file for writing: its directory must exist
CanOpenForWrite(ds, path) == Parent(path) \in ds

\* mode "a" instead of "w"
TextAfterAppend(old, text) == old \o text
\* mode "w": the text replaces the old content
TextAfterWrite(old, text) == text

\* read_json: json.loads(path.read_text()); a failure propagates.  main
\* calls read_json (line 128), which calls json.loads one level deeper
read_json(fs, path) ==
    IF ~fs[path].exists THEN Raise("FileNotFoundError")
    ELSE LET loaded(r) == IF r.ok THEN r.val ELSE Raise(r.err)
         IN  loaded(Loads(fs[path].text, MainDepth + 1))

\* the values a caller writes: scalars, flat and empty containers, the
\* demo's item list, and lists and dicts nested MaxDepth deep
RECURSIVE Layer(_)
Layer(d) ==
    IF d = 0 THEN {PyInt(1)}
    ELSE UNION {{PyList(<<x, PyBool(FALSE)>>), PyDict(<<[k |-> "items", x |-> x]>>)} :
                    x \in Layer(d - 1)}

JsonValues ==
    {PyNone, PyBool(TRUE), PyInt(-12), PyStr("a b"), PyList(<<>>), PyDict(<<>>),
     PyList(<<PyInt(1), PyStr("x"), PyNone>>),
     PyList(<<PyDict(<<[k |-> "id", x |-> PyInt(1)], [k |-> "name", x |-> PyStr("widget")]>>),
              PyDict(<<[k |-> "id", x |-> PyInt(2)], [k |-> "name", x |-> PyStr("gadget")]>>)>>),
     PyDict(<<[k |-> "name", x |-> PyStr("widget")], [k |-> "id", x |-> PyInt(1)]>>),
     PyList(<<BigInt(-2)>>),
     PyFloat(3, 2), PyFloat(-1, 100000), PyNegZero,
     PyStr("say \"hi\""), PyStr("a\\b\n\tc/"),
     PyDict(<<[k |-> "k\"1", x |-> PyList(<<PyFloat(1, 4), PyStr("x\\y\r")>>)],
              [k |-> "a\nb", x |-> PyFloat(250, 1)]>>)}
    \cup UNION {Layer(d) : d \in 1 .. MaxDepth}

\* values json.dumps also writes, as the constants NaN, Infinity, -Infinity:
\* a nan of the caller, bare and in a list, the infinities, and a list that
\* holds the nan of the decoder (a value loaded before)
NonFiniteValues ==
    {CallerNaN, PyNegInf, PyList(<<CallerNaN, PyInt(1)>>), PyList(<<PyInf, PyNaN>>)}

(***************************************************************************)
(* Records, models.py:25-95.                                               *)
(*   [cls |-> "User", id, name, email, active]                             *)
(*   [cls |-> "UserDC", id, name, email, active, fingerprint]              *)
(***************************************************************************)
NoRec == [cls |-> "none"]

\* User.__init__
NewUser(id, name, email, active) ==
    [cls |-> "User", id |-> id, name |-> name, email |-> email, active |-> active]

\* the generated UserDC.__init__: fingerprint is init=False, default None
NewUserDC(id, name, email, active) ==
    [cls |-> "UserDC", id |-> id, name |-> name, email |-> email, active |-> active,
     fingerprint |-> PyNone]

\* sha256(...).hexdigest(), kept symbolic: distinct messages, distinct digests
Sha256Hex(msg) == "sha256(" \o msg \o ")"

\* the digest taken of id and name
FingerprintOfIdName(r) == Sha256Hex(ToString(r.id) \o ":" \o r.name)
\* the digest of f"{self.id}:{self.email}"
FingerprintOf(r) == Sha256Hex(ToString(r.id) \o ":" \o r.email)

\* an __eq__ that compares every attribute
UserEqAllFields(a, b) == a = b
\* User.__eq__ on two Users
UserEq(a, b) == a.id = b.id

\* the generated UserDC.__eq__ on two UserDCs: the tuples of all fields
UserDCEq(a, b) ==
    <<a.id, a.name, a.email, a.active, a.fingerprint>>
        = <<b.id, b.name, b.email, b.active, b.fingerprint>>

\* a == b; both __eq__ return NotImplemented across the two classes, and
\* Python falls back to identity
RecEq(a, b, sameObject) ==
    IF a.cls = "User" /\ b.cls = "User" THEN UserEq(a, b)
    ELSE IF a.cls = "UserDC" /\ b.cls = "UserDC" THEN UserDCEq(a, b)
    ELSE sameObject

\* hash(n) of a small int
PyHashInt(n) == IF n = -1 THEN -2 ELSE n

\* a hash taken of another attribute than the one __eq__ compares
UserHashByEmail(u) == Len(u.email)
\* User.__hash__
UserHash(u) == PyHashInt(u.id)

Ids == {-2, -1, 1}
Names == {"Ann", "X"}
EmailPool == {"ann@example.com", "x@x.com"}
Slots == {1, 2}
NoBasis == [called |-> FALSE]

(***************************************************************************)
(* dedupe_users_by_id, models.py:103-114.                                  *)
(***************************************************************************)
\* a key that tells records with one id and different emails apart
DedupeKeyIdEmail(u) == <<u.id, u.email>>
\* what the loop remembers of a record
DedupeKey(u) == u.id

DedupeIds == {1, 2, 3}
Variants == {[name |-> "Ann", email |-> "ann@example.com"],
             [name |-> "Ann-dup", email |-> "ann@dup.com"]}
DedupeRecs ==
    {NewUser(i, w.name, w.email, TRUE) : i \in DedupeIds, w \in Variants}
    \cup {NewUserDC(i, w.name, w.email, TRUE) : i \in DedupeIds, w \in Variants}

(***************************************************************************)
(* The state machines.                                                     *)
(***************************************************************************)
InitBasics ==
    /\ score = 0 /\ letter = "" /\ prevScore = 0 /\ prevLetter = ""
    /\ divA = PyNone /\ divB = PyNone /\ divOut = NotCalled

InitEmails ==
    /\ emails = <<>> /\ normalized = <<>> /\ emailPhase = "uncalled"

InitParse ==
    /\ payload = "" /\ lost = 0 /\ parsePhase = "idle" /\ parseOut = NotCalled
    /\ parseDepth = MainDepth

\* the file system after the import of json_api.py: line 48 has made DATA_DIR;
\* the directory of the caller's path exists or not
DirChoices == {{DATA_DIR}, {DATA_DIR, Parent(ReportPath)}}

InitFiles ==
    /\ dirs \in DirChoices
    /\ files = [p \in Paths |-> NoFile]
    /\ ioCall = [op |-> "none", path |-> <<>>]
    /\ ioOut = NotCalled
    /\ written = [p \in Paths |-> NotCalled]

InitRecords ==
    /\ recs = [i \in Slots |-> NoRec]
    /\ fpBasis = [i \in Slots |-> NoBasis]
    /\ fpRet = NotCalled

InitDedupe ==
    /\ users = <<>> /\ pos = 0 /\ seen = {} /\ result = <<>> /\ dedupePc = "idle"

Init ==
    /\ InitBasics /\ InitEmails /\ InitParse /\ InitFiles /\ InitRecords /\ InitDedupe

\* the scripts that touch no file run in one file system
InitNoFiles == Init /\ dirs = {DATA_DIR}

\* print(grade(s)): one call of grade; the previous call is remembered
Grade(s) ==
    /\ score' = s
    /\ letter' = grade(s)
    /\ prevScore' = score
    /\ prevLetter' = letter
    /\ UNCHANGED <<divVars, emailVars, parseVars, fileVars, recVars, dedupeVars>>

\* one call safe_div(a, b)
SafeDiv(a, b) ==
    /\ divA' = a
    /\ divB' = b
    /\ divOut' = safe_div(a, b)
    /\ UNCHANGED <<gradeVars, emailVars, parseVars, fileVars, recVars, dedupeVars>>

\* normalized_emails = normalize_emails(emails) on a caller's list (the call
\* is pure, so one call from the initial state covers every call)
NormalizeEmails(xs) ==
    /\ emailPhase = "uncalled"
    /\ emails' = xs
    /\ normalized' = normalize_emails(xs)
    /\ emailPhase' = "called"
    /\ UNCHANGED <<gradeVars, divVars, parseVars, fileVars, recVars, dedupeVars>>

\* normalize_emails applied to the result of the previous call
NormalizeAgain ==
    /\ emailPhase # "uncalled"
    /\ emails' = normalized
    /\ normalized' = normalize_emails(normalized)
    /\ emailPhase' = "again"
    /\ UNCHANGED <<gradeVars, divVars, parseVars, fileVars, recVars, dedupeVars>>

\* a payload arrives
Receive(text) ==
    /\ parsePhase = "idle"
    /\ payload' = text
    /\ parsePhase' = "received"
    /\ UNCHANGED <<lost, parseOut, parseDepth>>
    /\ UNCHANGED <<gradeVars, divVars, emailVars, fileVars, recVars, dedupeVars>>

\* the payload loses its i-th character on the way
Corrupt(i) ==
    /\ parsePhase = "received"
    /\ lost < MaxCorrupt
    /\ payload' = DeleteChar(payload, i)
    /\ lost' = lost + 1
    /\ UNCHANGED <<parsePhase, parseOut, parseDepth>>
    /\ UNCHANGED <<gradeVars, divVars, emailVars, fileVars, recVars, dedupeVars>>

\* items = parse_items_from_json(payload), called at depth c
ParseItems(c) ==
    /\ parsePhase = "received"
    /\ parseOut' = parse_items_from_json(payload, c)
    /\ parseDepth' = c
    /\ parsePhase' = "parsed"
    /\ UNCHANGED <<payload, lost>>
    /\ UNCHANGED <<gradeVars, divVars, emailVars, fileVars, recVars, dedupeVars>>

\* write_json(path, obj)
WriteJson(path, obj) ==
    /\ ioCall' = [op |-> "write", path |-> path]
    /\ IF CanOpenForWrite(dirs, path)
       THEN /\ files' = [files EXCEPT ![path] =
                            [exists |-> TRUE, text |-> TextAfterWrite(@.text, WriteText(obj))]]
            /\ written' = [written EXCEPT ![path] =
                              [val |-> obj, again |-> files[path].exists]]
            /\ ioOut' = PyNone
       ELSE /\ ioOut' = Raise("FileNotFoundError")
            /\ UNCHANGED <<files, written>>
    /\ UNCHANGED dirs
    /\ UNCHANGED <<gradeVars, divVars, emailVars, parseVars, recVars, dedupeVars>>

\* loaded = read_json(path)
ReadJson(path) ==
    /\ ioCall' = [op |-> "read", path |-> path]
    /\ ioOut' = read_json(files, path)
    /\ UNCHANGED <<dirs, files, written>>
    /\ UNCHANGED <<gradeVars, divVars, emailVars, parseVars, recVars, dedupeVars>>

\* recs[i] = User(id, name, email, active)
ConstructUser(i, id, name, email, active) ==
    /\ recs[i] = NoRec
    /\ recs' = [recs EXCEPT ![i] = NewUser(id, name, email, active)]
    /\ UNCHANGED <<fpBasis, fpRet>>
    /\ UNCHANGED <<gradeVars, divVars, emailVars, parseVars, fileVars, dedupeVars>>

\* recs[i] = UserDC(id, name, email, active)
ConstructUserDC(i, id, name, email, active) ==
    /\ recs[i] = NoRec
    /\ recs' = [recs EXCEPT ![i] = NewUserDC(id, name, email, active)]
    /\ UNCHANGED <<fpBasis, fpRet>>
    /\ UNCHANGED <<gradeVars, divVars, emailVars, parseVars, fileVars, dedupeVars>>

\* recs[i].id = v: both classes are mutable
SetId(i, v) ==
    /\ recs[i] # NoRec
    /\ recs' = [recs EXCEPT ![i].id = v]
    /\ UNCHANGED <<fpBasis, fpRet>>
    /\ UNCHANGED <<gradeVars, divVars, emailVars, parseVars, fileVars, dedupeVars>>

\* recs[i].name = v
SetName(i, v) ==
    /\ recs[i] # NoRec
    /\ recs' = [recs EXCEPT ![i].name = v]
    /\ UNCHANGED <<fpBasis, fpRet>>
    /\ UNCHANGED <<gradeVars, divVars, emailVars, parseVars, fileVars, dedupeVars>>

\* recs[i].email = v
SetEmail(i, v) ==
    /\ recs[i] # NoRec
    /\ recs' = [recs EXCEPT ![i].email = v]
    /\ UNCHANGED <<fpBasis, fpRet>>
    /\ UNCHANGED <<gradeVars, divVars, emailVars, parseVars, fileVars, dedupeVars>>

\* recs[i].active = v
SetActive(i, v) ==
    /\ recs[i] # NoRec
    /\ recs' = [recs EXCEPT ![i].active = v]
    /\ UNCHANGED <<fpBasis, fpRet>>
    /\ UNCHANGED <<gradeVars, divVars, emailVars, parseVars, fileVars, dedupeVars>>

\* recs[i].compute_fingerprint(); the caller keeps the returned value or not
ComputeFingerprint(i, keep) ==
    /\ recs[i].cls = "UserDC"
    /\ LET fp == FingerprintOf(recs[i])
       IN  /\ recs' = [recs EXCEPT ![i].fingerprint = PyStr(fp)]
           /\ fpRet' = IF keep THEN PyStr(fp) ELSE fpRet
    /\ fpBasis' = [fpBasis EXCEPT ![i] =
                      [called |-> TRUE, id |-> recs[i].id, email |-> recs[i].email]]
    /\ UNCHANGED <<gradeVars, divVars, emailVars, parseVars, fileVars, dedupeVars>>

\* dedupe_users_by_id(us): lines 108-109
DedupeCall(us) ==
    /\ dedupePc = "idle"
    /\ users' = us
    /\ pos' = 1
    /\ seen' = {}
    /\ result' = <<>>
    /\ dedupePc' = "loop"
    /\ UNCHANGED <<gradeVars, divVars, emailVars, parseVars, fileVars, recVars>>

\* one iteration of the loop of lines 110-113
DedupeStep ==
    /\ dedupePc = "loop"
    /\ pos <= Len(users)
    /\ IF DedupeKey(users[pos]) \notin seen
       THEN /\ seen' = seen \cup {DedupeKey(users[pos])}
            /\ result' = Append(result, users[pos])
       ELSE UNCHANGED <<seen, result>>
    /\ pos' = pos + 1
    /\ UNCHANGED <<users, dedupePc>>
    /\ UNCHANGED <<gradeVars, divVars, emailVars, parseVars, fileVars, recVars>>

\* return result, line 114
DedupeReturn ==
    /\ dedupePc = "loop"
    /\ pos > Len(users)
    /\ dedupePc' = "done"
    /\ UNCHANGED <<users, pos, seen, result>>
    /\ UNCHANGED <<gradeVars, divVars, emailVars, parseVars, fileVars, recVars>>

NextGrade == \E s \in Scores : Grade(s)

NextSafeDiv == \E a \in Operands, b \in Operands : SafeDiv(a, b)

NextEmails ==
    \/ emailPhase = "uncalled" /\ \E xs \in SeqsUpTo(EmailEntries, MaxEmails) : NormalizeEmails(xs)
    \/ NormalizeAgain

NextParse ==
    \/ parsePhase = "idle" /\ \E text \in Payloads : Receive(text)
    \/ \E i \in 1 .. Len(payload) : Corrupt(i)
    \/ \E c \in CallDepths : ParseItems(c)

NextFiles ==
    \/ \E path \in Paths, obj \in JsonValues \cup NonFiniteValues : WriteJson(path, obj)
    \/ \E path \in Paths : ReadJson(path)

NextRecords ==
    \E i \in Slots :
        \/ \E id \in Ids, name \in Names, email \in EmailPool, active \in BOOLEAN :
              ConstructUser(i, id, name, email, active)
        \/ \E id \in Ids, name \in Names, email \in EmailPool, active \in BOOLEAN :
              ConstructUserDC(i, id, name, email, active)
        \/ \E v \in Ids : SetId(i, v)
        \/ \E v \in Names : SetName(i, v)
        \/ \E v \in EmailPool : SetEmail(i, v)
        \/ \E v \in BOOLEAN : SetActive(i, v)
        \/ ComputeFingerprint(i, FALSE)

\* one UserDC, as d1 of _demo: print("Fingerprint for d1:", d1.compute_fingerprint())
NextFingerprint ==
    \/ \E id \in Ids, name \in Names, email \in EmailPool, active \in BOOLEAN :
          ConstructUserDC(1, id, name, email, active)
    \/ \E v \in Ids : SetId(1, v)
    \/ \E v \in Names : SetName(1, v)
    \/ \E v \in EmailPool : SetEmail(1, v)
    \/ \E v \in BOOLEAN : SetActive(1, v)
    \/ ComputeFingerprint(1, TRUE)

NextDedupe ==
    \/ dedupePc = "idle" /\ \E us \in SeqsUpTo(DedupeRecs, MaxUsers) : DedupeCall(us)
    \/ DedupeStep
    \/ DedupeReturn

SpecGrade == InitNoFiles /\ [][NextGrade]_vars
SpecSafeDiv == InitNoFiles /\ [][NextSafeDiv]_vars
SpecEmails == InitNoFiles /\ [][NextEmails]_vars
SpecParse == InitNoFiles /\ [][NextParse]_vars
SpecFiles == Init /\ [][NextFiles]_vars
SpecRecords == InitNoFiles /\ [][NextRecords]_vars
SpecFingerprint == InitNoFiles /\ [][NextFingerprint]_vars
SpecDedupe == InitNoFiles /\ [][NextDedupe]_vars

(***************************************************************************)
(* Claims about grade.                                                     *)
(***************************************************************************)
Rank(l) == CASE l = "A" -> 4 [] l = "B" -> 3 [] l = "C" -> 2 [] l = "D" -> 1 [] OTHER -> 0

\* C7: for every integer score s, in range or not, grade(s) is A for s >= 90,
\* B for 80 <= s < 90, C for 70 <= s < 80, D for 60 <= s < 70 and F otherwise;
\* of two calls the one with the lower score never gets the better letter;
\* grade(90) = A, grade(89) = B, grade(59) = F.
C7_GradeBands ==
    letter # "" =>
        /\ \/ score >= 90 /\ letter = "A"
           \/ 80 <= score /\ score < 90 /\ letter = "B"
           \/ 70 <= score /\ score < 80 /\ letter = "C"
           \/ 60 <= score /\ score < 70 /\ letter = "D"
           \/ score < 60 /\ letter = "F"
        /\ (prevLetter # "" /\ prevScore <= score) => Rank(prevLetter) <= Rank(letter)
        /\ (prevLetter # "" /\ prevScore >= score) => Rank(prevLetter) >= Rank(letter)
        /\ score = 90 => letter = "A"
        /\ score = 89 => letter = "B"
        /\ score = 59 => letter = "F"

\* grade was called on a score below 0 and then on the boundary score 90
C7_Witness ==
    /\ prevScore < 0 /\ prevLetter = "F"
    /\ score = 90 /\ letter = "A"

(***************************************************************************)
(* Claims about safe_div.                                                  *)
(***************************************************************************)
\* the quotient a / b of two numbers, b nonzero, as the double nearest to it:
\* an int scaled by 10^400 over one that is not has no double, and the
\* reverse rounds to 0.0
QuotientIs(a, b, r) ==
    /\ r.t = "float"
    /\ IF IsBig(a) = IsBig(b)
       THEN r.num * (DenOf(a) * NumOf(b)) = r.den * (NumOf(a) * DenOf(b))
       ELSE IsBig(b) /\ r.num = 0

\* C1: for operands drawn from numbers and non-numeric values safe_div(a, b)
\* never raises: it returns None exactly when b is zero or the operands'
\* types do not divide, and the quotient a / b in every other case.
C1_SafeDivNeverRaises ==
    divOut # NotCalled =>
        /\ divOut.t # "raise"
        /\ divOut = PyNone <=> (IsZero(divB) \/ ~(IsNumber(divA) /\ IsNumber(divB)))
        /\ divOut # PyNone => QuotientIs(divA, divB, divOut)

(***************************************************************************)
(* Claims about normalize_emails.                                          *)
(***************************************************************************)
\* C5: normalize_emails is idempotent, and its result is a sorted,
\* duplicate-free list of trimmed lowercase strings with the non-text and
\* the empty entries dropped.
C5_NormalizeIdempotent ==
    emailPhase # "uncalled" =>
        /\ emailPhase = "again" => normalized = emails
        /\ \A i \in 1 .. Len(normalized) :
            /\ normalized[i].t = "str"
            /\ normalized[i].v # ""
            /\ Strip(normalized[i].v) = normalized[i].v
            /\ Lower(normalized[i].v) = normalized[i].v
        /\ \A i \in 1 .. Len(normalized) - 1 :
            StrLess(normalized[i].v, normalized[i + 1].v)

(***************************************************************************)
(* Claims about parse_items_from_json.                                     *)
(***************************************************************************)
\* the value of a text as JSON: json.loads with the whole stack free
JsonOf(text) == Loads(text, 0)

\* the outcome C2 states for the payload
AsStated ==
    LET stated(r) ==
            LET bad == \/ ~r.ok
                       \/ r.val.t # "dict"
                       \/ ~DictHas(r.val, "items")
                       \/ DictGet(r.val, "items").t # "list"
            IN  /\ bad => /\ parseOut.t = "raise"
                          /\ parseOut.exc = "ValueError"
                          /\ parseOut.msg # ""
                /\ ~bad => parseOut = DictGet(r.val, "items")
                /\ payload = "{}" => parseOut.t = "raise"
                /\ payload = "{\"items\":[1,2]}" =>
                       parseOut = PyList(<<PyInt(1), PyInt(2)>>)
    IN  stated(JsonOf(payload))

Opens(text) == Cardinality({i \in 1 .. Len(text) : Char(text, i) \in {"[", "{"}})

RECURSIVE OnlyDecoderNaN(_)
OnlyDecoderNaN(x) ==
    CASE x.t = "float" -> ~IsNaN(x) \/ x = PyNaN
      [] x.t = "list" -> \A i \in 1 .. Len(x.v) : OnlyDecoderNaN(x.v[i])
      [] x.t = "dict" -> \A i \in 1 .. Len(x.v) : OnlyDecoderNaN(x.v[i].x)
      [] OTHER -> TRUE

C8_WriteCreatesParents ==
    ioCall.op = "write" =>
        /\ ioOut = PyNone
        /\ Parent(ioCall.path) \in dirs
        /\ files[ioCall.path].exists
        /\ files[ioCall.path].text = WriteText(written[ioCall.path].val)

WriteOutcome ==
    ioCall.op = "write" =>
        IF Parent(ioCall.path) \in dirs
        THEN /\ ioOut = PyNone
             /\ files[ioCall.path].exists
             /\ files[ioCall.path].text = WriteText(written[ioCall.path].val)
        ELSE /\ ioOut = Raise("FileNotFoundError")
             /\ ~files[ioCall.path].exists

\* C8 as amended: write_json creates no directory; it succeeds, and the file
\* then holds the serialized value, exactly when the directory of the path
\* exists already (as DATA_DIR does, made at import); otherwise it raises
\* FileNotFoundError and writes nothing.
C8_WriteNeedsParent == []WriteOutcome /\ [][dirs' = dirs]_vars

\* write_json was called on a path whose directory does not exist
C8_Witness ==
    /\ ioCall.op = "write"
    /\ Parent(ioCall.path) \notin dirs
    /\ ioOut = Raise("FileNotFoundError")

(***************************************************************************)
(* Claims about User and UserDC.                                           *)
(***************************************************************************)
Present == {i \in Slots : recs[i] # NoRec}

\* C4 as stated: two records of either variant are equal if and only if
\* their ids match, whatever their other fields.
C4_EqualIffSameId ==
    \A i, j \in Present :
        recs[i].cls = recs[j].cls =>
            (RecEq(recs[i], recs[j], i = j) <=> recs[i].id = recs[j].id)

\* C4 as amended: two Users are equal if and only if their ids match,
\* whatever their other fields; two UserDCs are equal if and only if id,
\* name, email, active and fingerprint all match; a User and a UserDC are
\* never equal.
C4_EqualityByClass ==
    \A i, j \in Present :
        LET a == recs[i]
            b == recs[j]
        IN  /\ (a.cls = "User" /\ b.cls = "User") =>
                  (RecEq(a, b, i = j) <=> a.id = b.id)
            /\ (a.cls = "UserDC" /\ b.cls = "UserDC") =>
                  (RecEq(a, b, i = j) <=>
                      /\ a.id = b.id /\ a.name = b.name /\ a.email = b.email
                      /\ a.active = b.active /\ a.fingerprint = b.fingerprint)
            /\ a.cls # b.cls => ~RecEq(a, b, i = j)

\* two UserDCs that differ in nothing but the fingerprint one of them has
\* computed, and so are not equal
C4_Witness ==
    /\ recs[1].cls = "UserDC" /\ recs[2].cls = "UserDC"
    /\ recs[1].id = recs[2].id /\ recs[1].name = recs[2].name
    /\ recs[1].email = recs[2].email /\ recs[1].active = recs[2].active
    /\ recs[1].fingerprint # recs[2].fingerprint
    /\ ~RecEq(recs[1], recs[2], FALSE)

FingerprintTracksLastCall ==
    \A i \in Present :
        recs[i].cls = "UserDC" =>
            /\ recs[i].fingerprint = PyNone <=> ~fpBasis[i].called
            /\ fpBasis[i].called =>
                  recs[i].fingerprint =
                      PyStr(Sha256Hex(ToString(fpBasis[i].id) \o ":" \o fpBasis[i].email))
            /\ fpRet # NotCalled => fpRet = recs[i].fingerprint

\* a step that is no compute_fingerprint call leaves the fingerprint alone
FingerprintKeptByAssignment ==
    \A i \in Slots :
        (recs[i].cls = "UserDC" /\ fpBasis'[i] = fpBasis[i]) =>
            recs'[i].fingerprint = recs[i].fingerprint

\* C9: a UserDC's fingerprint is absent on creation; compute_fingerprint
\* sets it to, and returns, the digest of the current id and email; an
\* assignment to id or email afterwards leaves it unchanged.  So the stored
\* fingerprint is absent (no call yet) or the digest of the id and email at
\* the most recent call, which may differ from the current ones.
C9_FingerprintStale == []FingerprintTracksLastCall /\ [][FingerprintKeptByAssignment]_vars

\* the stored fingerprint is no longer the digest of the current id and email
C9_Witness ==
    /\ recs[1].cls = "UserDC"
    /\ fpBasis[1].called
    /\ recs[1].fingerprint # PyStr(FingerprintOf(recs[1]))
    /\ <<fpBasis[1].id, fpBasis[1].email>> # <<recs[1].id, recs[1].email>>

EqualUsersHashEqual ==
    \A i, j \in Present :
        (recs[i].cls = "User" /\ recs[j].cls = "User" /\ RecEq(recs[i], recs[j], i = j)) =>
            UserHash(recs[i]) = UserHash(recs[j])

HashChangesOnlyWithId ==
    \A i \in Slots :
        (recs[i].cls = "User" /\ recs'[i].cls = "User"
            /\ UserHash(recs'[i]) # UserHash(recs[i])) =>
                recs'[i].id # recs[i].id

\* C10: under construction and reassignment of any field of User records,
\* two Users that compare equal have the same hash, and a User's hash
\* changes only when its id is reassigned.
C10_EqHashConsistent == []EqualUsersHashEqual /\ [][HashChangesOnlyWithId]_vars

\* two equal Users whose names and emails differ
C10_Witness ==
    /\ recs[1].cls = "User" /\ recs[2].cls = "User"
    /\ RecEq(recs[1], recs[2], FALSE)
    /\ recs[1].name # recs[2].name /\ recs[1].email # recs[2].email
    /\ UserHash(recs[1]) = UserHash(recs[2])

(***************************************************************************)
(* Claims about dedupe_users_by_id.                                        *)
(***************************************************************************)
\* the indices at which an id occurs for the first time
FirstSeen == {i \in 1 .. Len(users) : \A j \in 1 .. i - 1 : users[j].id # users[i].id}
\* the k-th smallest element of a set of indices
Kth(S, k) == CHOOSE i \in S : Cardinality({j \in S : j < i}) = k - 1

\* C3: for every input of Users and UserDCs the result has one record for
\* each distinct id, namely the record that first carried it, in first-seen
\* order; its length is the number of distinct ids, and a later record with
\* a seen id is dropped even when its name or email differs.
C3_DedupeFirstSeen ==
    dedupePc = "done" =>
        /\ Len(result) = Cardinality({users[i].id : i \in 1 .. Len(users)})
        /\ Len(result) = Cardinality(FirstSeen)
        /\ \A k \in 1 .. Len(result) : result[k] = users[Kth(FirstSeen, k)]

\* [id1, id2, id1] with a UserDC duplicate of a User under another name
C3_Witness ==
    /\ dedupePc = "done"
    /\ Len(users) = 3
    /\ users[1].id = users[3].id /\ users[1].id # users[2].id
    /\ users[1].cls = "User" /\ users[3].cls = "UserDC"
    /\ users[1].email # users[3].email
    /\ Len(result) = 2
    /\ result[1] = users[1]

====
